---------------------------- MODULE Spec2Model ----------------------------
(***************************************************************************)
(* Competitor discovery and scoring engine of the market-scan service.     *)
(*                                                                         *)
(* Numbers.  JavaScript numbers are modelled as exact rationals            *)
(* [n |-> numerator, d |-> denominator] with d > 0, extended by the three  *)
(* non-finite IEEE values: NaN (0/0), Infinity (1/0), -Infinity (-1/0).    *)
(* Ratings are rationals with one decimal (4.8 = 48/10).  Review counts    *)
(* are drawn from 10^k - 1, so that Math.log10(reviewCount + 1) = k is     *)
(* exact.                                                                  *)
(***************************************************************************)
EXTENDS Integers, Sequences, FiniteSets, TLC

VARIABLES
    target,        \* the BusinessSuggestion under analysis
    competitors,   \* the competitor list handed to the scoring functions
    called,        \* ScoreSpec: the scoring function called last
    returned,      \* ScoreSpec: the value that call returned, under the function's name
    pc,            \* Spec: where the request handler stands
    apiKey,        \* GooglePlacesService.apiKey: "mock_key" or a real key
    searchQueries, \* findCompetitors: the query variants, in list order
    allBusinesses, \* findCompetitors: the accumulator
    seenPlaceIds,  \* findCompetitors: the ids already accumulated
    responses,     \* what searchBusinesses returned, one entry per query issued
    baseResult,    \* analyzeCompetition: the core result, None before it is built
    aiOutcome,     \* how generateCompetitorInsights ended
    seoOutcome,    \* how the enhanced SEO analysis ended
    result,        \* what analyzeCompetition returned, None if nothing (yet)
    thrown,        \* the message of the Error analyzeCompetition threw, None if none
    http,          \* the HTTP response of POST /api/analysis/start
    env,           \* process.env as analyzeCompetition read it, None before the read
    analyses,      \* storage: the analyses createAnalysis persisted
    runs           \* ConcurrentSpec: the locals of each analyzeCompetition call in flight

-----------------------------------------------------------------------------
(* Bounds of the model *)

MaxCompetitors == 2    \* ScoreSpec: longest competitor list handed to a scoring function
NumIds == 16           \* Spec: the places the directory knows, ids 1..NumIds

-----------------------------------------------------------------------------
(* Optional values: a missing (undefined / null) value is None *)

None == <<>>
Some(x) == <<x>>

-----------------------------------------------------------------------------
(* JavaScript number arithmetic *)

Abs(x) == IF x < 0 THEN -x ELSE x

RECURSIVE GCD(_, _)
GCD(a, b) == IF b = 0 THEN a ELSE GCD(b, a % b)

\* the rational n/d, d > 0, in lowest terms
Q(n, d) == LET g == GCD(Abs(n), d) IN [n |-> n \div g, d |-> d \div g]

Num(i) == [n |-> i, d |-> 1]
Tenths(i) == Q(i, 10)

NaN == [n |-> 0, d |-> 0]
Infinity == [n |-> 1, d |-> 0]
NegInfinity == [n |-> -1, d |-> 0]

IsNaN(x) == x.d = 0 /\ x.n = 0
IsFinite(x) == x.d > 0
IsInteger(x) == x.d = 1
Sign(x) == IF x.n > 0 THEN 1 ELSE IF x.n < 0 THEN -1 ELSE 0
Signed(s) == IF s > 0 THEN Infinity ELSE IF s < 0 THEN NegInfinity ELSE NaN

Neg(x) == [n |-> -(x.n), d |-> x.d]

\* a + b
Add(a, b) ==
    IF IsNaN(a) \/ IsNaN(b) THEN NaN
    ELSE IF ~IsFinite(a) /\ ~IsFinite(b) THEN (IF a = b THEN a ELSE NaN)
    ELSE IF ~IsFinite(a) THEN a
    ELSE IF ~IsFinite(b) THEN b
    ELSE LET g == GCD(a.d, b.d)
             l == (a.d \div g) * b.d
         IN  Q(a.n * (l \div a.d) + b.n * (l \div b.d), l)

\* a - b
Sub(a, b) == Add(a, Neg(b))

\* a * b
Mul(a, b) ==
    IF IsNaN(a) \/ IsNaN(b) THEN NaN
    ELSE IF ~IsFinite(a) \/ ~IsFinite(b) THEN Signed(Sign(a) * Sign(b))
    ELSE LET g1 == GCD(Abs(a.n), b.d)
             g2 == GCD(Abs(b.n), a.d)
         IN  Q((a.n \div g1) * (b.n \div g2), (a.d \div g2) * (b.d \div g1))

\* a / b ; x/0 is +-Infinity and 0/0 is NaN (no negative zero arises here)
Div(a, b) ==
    IF IsNaN(a) \/ IsNaN(b) THEN NaN
    ELSE IF ~IsFinite(a) /\ ~IsFinite(b) THEN NaN
    ELSE IF ~IsFinite(a) THEN (IF Sign(b) < 0 THEN Neg(a) ELSE a)
    ELSE IF ~IsFinite(b) THEN Num(0)
    ELSE IF b.n = 0 THEN Signed(Sign(a))
    ELSE Mul(a, IF b.n > 0 THEN [n |-> b.d, d |-> b.n]
                           ELSE [n |-> -(b.d), d |-> -(b.n)])

\* a < b ; every comparison with NaN is false
Less(a, b) ==
    IF IsNaN(a) \/ IsNaN(b) THEN FALSE
    ELSE IF ~IsFinite(a) \/ ~IsFinite(b)
         THEN (IF IsFinite(a) THEN 0 ELSE a.n) < (IF IsFinite(b) THEN 0 ELSE b.n)
    ELSE a.n * b.d < b.n * a.d

Greater(a, b) == Less(b, a)
GreaterEq(a, b) == ~IsNaN(a) /\ ~IsNaN(b) /\ ~Less(a, b)

\* Math.min, Math.max: NaN if either argument is NaN
MathMin(a, b) == IF IsNaN(a) \/ IsNaN(b) THEN NaN ELSE IF Less(b, a) THEN b ELSE a
MathMax(a, b) == IF IsNaN(a) \/ IsNaN(b) THEN NaN ELSE IF Less(a, b) THEN b ELSE a

\* Math.round: nearest integer, halves towards +Infinity; NaN and +-Infinity unchanged
MathRound(x) == IF ~IsFinite(x) THEN x ELSE Num((2 * x.n + x.d) \div (2 * x.d))

\* Number(x.toFixed(1)) of a finite x >= 0: x rounded to one decimal. The value is
\* the exact quotient and a tie (x.x5) rounds up; the representation error of a
\* double, which can turn such a tie down, is not modelled.
ToFixed1(x) == IF ~IsFinite(x) THEN x ELSE Q((20 * x.n + x.d) \div (2 * x.d), 10)

RECURSIVE Pow10(_)
Pow10(k) == IF k = 0 THEN 1 ELSE 10 * Pow10(k - 1)

\* Math.log10 on the powers of ten
Log10(m) == Num(CHOOSE k \in 0..9 : Pow10(k) = m)

-----------------------------------------------------------------------------
(* Helpers over competitor lists *)

Min(a, b) == IF a < b THEN a ELSE b

\* rating * Math.log10((reviewCount || 0) + 1)
Strength(b) == Mul(b.rating, Log10(b.reviewCount + 1))

RECURSIVE SumRating(_)
SumRating(s) == IF s = <<>> THEN Num(0) ELSE Add(SumRating(SubSeq(s, 1, Len(s) - 1)), s[Len(s)].rating)

RECURSIVE SumReviews(_)
SumReviews(s) == IF s = <<>> THEN 0 ELSE SumReviews(SubSeq(s, 1, Len(s) - 1)) + s[Len(s)].reviewCount

\* mean competitor rating, 4.0 for an empty list
AvgRating(cs) == IF Len(cs) > 0 THEN Div(SumRating(cs), Num(Len(cs))) ELSE Tenths(40)

\* mean competitor reviewCount, 50 for an empty list
AvgReviews(cs) == IF Len(cs) > 0 THEN Div(Num(SumReviews(cs)), Num(Len(cs))) ELSE Num(50)

\* faulty variant: x placed ahead of the elements of equal strength
InsertByStrength_BeforeTies(s, x) ==
    LET k == Cardinality({i \in 1..Len(s) : Greater(Strength(s[i]), Strength(x))})
    IN  SubSeq(s, 1, k) \o <<x>> \o SubSeq(s, k + 1, Len(s))

\* x inserted into a list sorted by descending strength, behind every element
\* the comparator (scoreB - scoreA) does not order after it
InsertByStrength(s, x) ==
    LET k == Cardinality({i \in 1..Len(s) : GreaterEq(Strength(s[i]), Strength(x))})
    IN  SubSeq(s, 1, k) \o <<x>> \o SubSeq(s, k + 1, Len(s))

\* Array.prototype.sort((a, b) => scoreB - scoreA): stable, descending by strength
RECURSIVE SortByStrength(_)
SortByStrength(s) ==
    IF s = <<>> THEN <<>>
    ELSE InsertByStrength(SortByStrength(SubSeq(s, 1, Len(s) - 1)), s[Len(s)])

\* Array.prototype.findIndex(b => b.placeId === id): 0-based, -1 when absent
FindIndex(s, id) ==
    LET hits == {i \in 1..Len(s) : s[i].placeId = id}
    IN  IF hits = {} THEN -1 ELSE (CHOOSE i \in hits : \A j \in hits : i <= j) - 1

\* competitors.reduce((top, current) => current.reviewCount > top.reviewCount ? current : top)
RECURSIVE MaxByReviews(_)
MaxByReviews(s) ==
    IF Len(s) = 1 THEN s[1]
    ELSE LET top == MaxByReviews(SubSeq(s, 1, Len(s) - 1))
             current == s[Len(s)]
         IN  IF current.reviewCount > top.reviewCount THEN current ELSE top

\* a message of a strengths/opportunities list: its text and the number put into it
Msg(text) == [text |-> text, arg |-> <<>>]
MsgWith(text, x) == [text |-> text, arg |-> <<x>>]

\* Array.prototype.slice(0, n)
Slice(s, n) == SubSeq(s, 1, Min(n, Len(s)))

-----------------------------------------------------------------------------
(* ScoringEngine and MarketSummarizer *)

\* faulty variant: the 0-based index of findIndex returned as the position
calculateMarketPosition_ZeroBased(t, cs) ==
    FindIndex(SortByStrength(<<t>> \o cs), t.placeId)

calculateMarketPosition(t, cs) ==
    LET ranked == SortByStrength(<<t>> \o cs)
    IN  FindIndex(ranked, t.placeId) + 1

\* faulty variant: a rating below the competitors' mean raises the score
calculateCompetitiveScore_DeficitAdded(t, cs) ==
    LET avgCompetitorRating == AvgRating(cs)
        s1 == IF Greater(t.rating, avgCompetitorRating)
              THEN Add(Num(50), MathMin(Num(20), Mul(Sub(t.rating, avgCompetitorRating), Num(10))))
              ELSE Add(Num(50), MathMin(Num(20), Mul(Sub(avgCompetitorRating, t.rating), Num(10))))
        avgCompetitorReviews == AvgReviews(cs)
        reviews == Num(t.reviewCount)
        s2 == IF Greater(reviews, avgCompetitorReviews)
              THEN Add(s1, MathMin(Num(15),
                       Mul(Div(Sub(reviews, avgCompetitorReviews), avgCompetitorReviews), Num(15))))
              ELSE IF Greater(avgCompetitorReviews, Num(0))
              THEN Sub(s1, MathMin(Num(15),
                       Mul(Div(Sub(avgCompetitorReviews, reviews), avgCompetitorReviews), Num(15))))
              ELSE s1
        s3 == IF t.publicInfo.website THEN Add(s2, Num(10)) ELSE s2
        s4 == IF t.publicInfo.phone THEN Add(s3, Num(5)) ELSE s3
    IN  MathMax(Num(0), MathMin(Num(100), MathRound(s4)))

\* faulty variant: the score clamped but not rounded
calculateCompetitiveScore_NotRounded(t, cs) ==
    LET avgCompetitorRating == AvgRating(cs)
        s1 == IF Greater(t.rating, avgCompetitorRating)
              THEN Add(Num(50), MathMin(Num(20), Mul(Sub(t.rating, avgCompetitorRating), Num(10))))
              ELSE Sub(Num(50), MathMin(Num(20), Mul(Sub(avgCompetitorRating, t.rating), Num(10))))
        avgCompetitorReviews == AvgReviews(cs)
        reviews == Num(t.reviewCount)
        s2 == IF Greater(reviews, avgCompetitorReviews)
              THEN Add(s1, MathMin(Num(15),
                       Mul(Div(Sub(reviews, avgCompetitorReviews), avgCompetitorReviews), Num(15))))
              ELSE IF Greater(avgCompetitorReviews, Num(0))
              THEN Sub(s1, MathMin(Num(15),
                       Mul(Div(Sub(avgCompetitorReviews, reviews), avgCompetitorReviews), Num(15))))
              ELSE s1
        s3 == IF t.publicInfo.website THEN Add(s2, Num(10)) ELSE s2
        s4 == IF t.publicInfo.phone THEN Add(s3, Num(5)) ELSE s3
    IN  MathMax(Num(0), MathMin(Num(100), s4))

\* calculateCompetitiveScore: what the review volume advantage adds to the score
reviewVolumeTerm(t, cs) ==
    LET avgCompetitorReviews == AvgReviews(cs)
        reviews == Num(t.reviewCount)
    IN  IF Greater(reviews, avgCompetitorReviews)
        THEN MathMin(Num(15),
                     Mul(Div(Sub(reviews, avgCompetitorReviews), avgCompetitorReviews), Num(15)))
        ELSE IF Greater(avgCompetitorReviews, Num(0))
        THEN Neg(MathMin(Num(15),
                     Mul(Div(Sub(avgCompetitorReviews, reviews), avgCompetitorReviews), Num(15))))
        ELSE Num(0)

calculateCompetitiveScore(t, cs) ==
    LET avgCompetitorRating == AvgRating(cs)
        s1 == IF Greater(t.rating, avgCompetitorRating)
              THEN Add(Num(50), MathMin(Num(20), Mul(Sub(t.rating, avgCompetitorRating), Num(10))))
              ELSE Sub(Num(50), MathMin(Num(20), Mul(Sub(avgCompetitorRating, t.rating), Num(10))))
        s2 == Add(s1, reviewVolumeTerm(t, cs))
        s3 == IF t.publicInfo.website THEN Add(s2, Num(10)) ELSE s2
        s4 == IF t.publicInfo.phone THEN Add(s3, Num(5)) ELSE s3
    IN  MathMax(Num(0), MathMin(Num(100), MathRound(s4)))

\* faulty variant: the no-competitor fallback without its cap of 64
fallbackPerformanceScore_Uncapped(t) ==
    MathRound(Mul(Div(t.rating, Num(5)), Num(100)))

\* faulty variant: the rating weighted with the 40 points of the earlier revision
fallbackPerformanceScore_FortyPoints(t) ==
    MathMin(Num(64), MathRound(Mul(Div(t.rating, Num(5)), Num(40))))

\* calculatePerformanceScore without competitors
fallbackPerformanceScore(t) ==
    MathMin(Num(64), MathRound(Mul(Div(t.rating, Num(5)), Num(100))))

\* calculatePerformanceScore: the points lost to the gap from the #1 competitor
leaderGapDeduction(t, topCompetitor) ==
    LET topScore == Strength(topCompetitor)
        targetScore == Strength(t)
        gap == Div(MathMax(Num(0), Sub(topScore, targetScore)), topScore)
    IN  Mul(gap, Num(30))

\* calculatePerformanceScore with competitors
comparativePerformanceScore(t, cs) ==
    LET rankedCompetitors == SortByStrength(cs)
        topCompetitor == rankedCompetitors[1]
        top3Competitors == Slice(rankedCompetitors, 3)
        s1 == Sub(Num(100), leaderGapDeduction(t, topCompetitor))
        avgTop3Reviews == Div(Num(SumReviews(top3Competitors)), Num(Len(top3Competitors)))
        reviews == Num(t.reviewCount)
        s2 == IF Less(reviews, avgTop3Reviews)
              THEN Sub(s1, MathMin(Num(25),
                       Mul(Div(Sub(avgTop3Reviews, reviews), avgTop3Reviews), Num(25))))
              ELSE s1
        s3 == IF Less(t.rating, topCompetitor.rating)
              THEN Sub(s2, MathMin(Num(25),
                       Mul(Div(Sub(topCompetitor.rating, t.rating), topCompetitor.rating), Num(25))))
              ELSE s2
        missingPoints == (IF ~t.publicInfo.website THEN 8 ELSE 0)
                       + (IF ~t.publicInfo.phone THEN 4 ELSE 0)
                       + (IF t.publicInfo.photos < 10 THEN 4 ELSE 0)
                       + (IF t.reviewCount < 50 THEN 4 ELSE 0)
        s4 == Sub(s3, Num(missingPoints))
    IN  MathMax(Num(0), MathMin(Num(64), MathRound(s4)))

calculatePerformanceScore(t, cs) ==
    IF Len(cs) = 0 THEN fallbackPerformanceScore(t) ELSE comparativePerformanceScore(t, cs)

\* the earlier revision of calculatePerformanceScore: the target alone, 0..100
calculatePerformanceScoreSimple(t) ==
    LET s1 == Mul(Div(t.rating, Num(5)), Num(40))
        s2 == Add(s1, MathMin(Num(30), Mul(Div(Num(t.reviewCount), Num(100)), Num(30))))
        s3 == IF t.publicInfo.website THEN Add(s2, Num(15)) ELSE s2
        s4 == IF t.publicInfo.phone THEN Add(s3, Num(10)) ELSE s3
        s5 == IF t.publicInfo.photos >= 5 THEN Add(s4, Num(5)) ELSE s4
    IN  MathRound(s5)

\* identifyStrengths: the strengths pushed, before the list is cut
strengthCandidates(t, cs) ==
    LET avgRating == AvgRating(cs)
        below == Cardinality({i \in 1..Len(cs) : Less(cs[i].rating, t.rating)})
        percent == MathRound(Mul(Div(Num(below), Num(Len(cs))), Num(100)))
        c1 == IF Greater(t.rating, Add(avgRating, Tenths(2)))
              THEN <<MsgWith("Higher rating than % of competitors", percent)>> ELSE <<>>
        c2 == IF GreaterEq(t.rating, Tenths(45))
              THEN <<Msg("Excellent customer service reputation")>> ELSE <<>>
        c3 == IF t.publicInfo.website /\ t.publicInfo.phone
              THEN <<Msg("Complete online business profile")>> ELSE <<>>
        c4 == IF Greater(Num(t.reviewCount), AvgReviews(cs))
              THEN <<Msg("Above average review volume")>> ELSE <<>>
    IN  c1 \o c2 \o c3 \o c4

\* faulty variant: every strength returned
identifyStrengths_NoLimit(t, cs) == strengthCandidates(t, cs)

identifyStrengths(t, cs) == Slice(strengthCandidates(t, cs), 3)

\* identifyOpportunities: the opportunities pushed, before the list is cut
opportunityCandidates(t, cs) ==
    LET c1 == IF Len(cs) > 0
                 /\ Less(Num(t.reviewCount), Mul(Num(MaxByReviews(cs).reviewCount), Tenths(7)))
              THEN <<MsgWith("Increase review volume by reviews to match market leader",
                             MathRound(Num(MaxByReviews(cs).reviewCount - t.reviewCount)))>>
              ELSE <<>>
        c2 == IF ~t.publicInfo.website
              THEN <<Msg("Add website to improve online presence")>> ELSE <<>>
        c3 == IF t.reviewCount < 50
              THEN <<Msg("Focus on collecting more customer reviews")>> ELSE <<>>
        c4 == IF Less(t.rating, AvgRating(cs))
              THEN <<Msg("Improve service quality to boost customer ratings")>> ELSE <<>>
        c5 == IF t.publicInfo.photos < 10
              THEN <<Msg("Add more photos to business listing")>> ELSE <<>>
    IN  c1 \o c2 \o c3 \o c4 \o c5

\* faulty variant: the last three opportunities are kept
identifyOpportunities_LastThree(t, cs) ==
    LET all == opportunityCandidates(t, cs)
    IN  SubSeq(all, Len(all) - Min(3, Len(all)) + 1, Len(all))

identifyOpportunities(t, cs) == Slice(opportunityCandidates(t, cs), 3)

\* faulty variant: the total taken over the competitors alone
analyzeMarket_CompetitorsOnly(t, cs) ==
    LET totalReviews == SumReviews(cs)
        marketShare == IF totalReviews > 0
                       THEN Mul(Div(Num(t.reviewCount), Num(totalReviews)), Num(100))
                       ELSE Num(0)
    IN  [totalCompetitors |-> Len(cs),
         averageRating |-> ToFixed1(AvgRating(cs)),
         marketShare |-> ToFixed1(marketShare)]

\* faulty variant: the share returned as computed, not rounded to one decimal
analyzeMarket_ShareNotRounded(t, cs) ==
    LET totalReviews == SumReviews(<<t>> \o cs)
        marketShare == IF totalReviews > 0
                       THEN Mul(Div(Num(t.reviewCount), Num(totalReviews)), Num(100))
                       ELSE Num(0)
    IN  [totalCompetitors |-> Len(cs),
         averageRating |-> ToFixed1(AvgRating(cs)),
         marketShare |-> marketShare]

analyzeMarket(t, cs) ==
    LET totalReviews == SumReviews(<<t>> \o cs)
        marketShare == IF totalReviews > 0
                       THEN Mul(Div(Num(t.reviewCount), Num(totalReviews)), Num(100))
                       ELSE Num(0)
    IN  [totalCompetitors |-> Len(cs),
         averageRating |-> ToFixed1(AvgRating(cs)),
         marketShare |-> ToFixed1(marketShare)]

-----------------------------------------------------------------------------
(* ScoreSpec: the scoring functions as independently callable units *)

RatingTenths == {0, 35, 45, 50}      \* target ratings 0.0, 3.5, 4.5, 5.0
CompetitorRatingTenths == {0, 40, 50}
ReviewCounts == {0, 9, 99}           \* of the form 10^k - 1
CompetitorReviewCounts == {0, 9, 99999}
PhotoCounts == {0, 10}

\* An address is the list of its comma-separated parts; each part carries its text
\* and what /([A-Z]{2})\s+(\d{5})/ matches in it ("" when it does not match).
\* Texts are kept in lower case.
Part(text, state, zip) == [text |-> text, state |-> state, zip |-> zip]
StreetAddress == <<Part("123 main st", "", ""), Part("phoenix", "", ""), Part("az 85001", "az", "85001")>>
EmptyAddress == <<Part("", "", "")>>

Business(id, r, n, web, phone, photos) ==
    [placeId |-> id, rating |-> Tenths(r), reviewCount |-> n,
     address |-> Some(StreetAddress), serviceType |-> Some("hvac"),
     publicInfo |-> [website |-> web, phone |-> phone, photos |-> photos]]

\* the targets of ScoreSpec: placeId 0
ScoreTargets ==
    {Business(0, r, n, w, p, ph) :
        r \in RatingTenths, n \in ReviewCounts, w \in BOOLEAN, p \in BOOLEAN, ph \in PhotoCounts}

\* a competitor at position i of the list: placeId i (the ids of a CompetitorSet
\* are distinct and differ from the target's)
Competitor(i, r, n) == Business(i, r, n, TRUE, TRUE, 10)

CompetitorLists ==
    UNION {{[i \in 1..len |-> Competitor(i, rs[i], ns[i])] :
                rs \in [1..len -> CompetitorRatingTenths],
                ns \in [1..len -> CompetitorReviewCounts]} :
           len \in 0..MaxCompetitors}

\* no call made yet
NothingReturned == [f \in {"none"} |-> 0]

ScoreInit ==
    /\ target \in ScoreTargets
    /\ competitors \in CompetitorLists
    /\ called = "none"
    /\ returned = NothingReturned
    /\ pc = "unit"
    /\ apiKey = "mock_key"
    /\ searchQueries = <<>>
    /\ allBusinesses = <<>>
    /\ seenPlaceIds = {}
    /\ responses = <<>>
    /\ baseResult = None
    /\ aiOutcome = "none"
    /\ seoOutcome = "none"
    /\ result = None
    /\ thrown = None
    /\ http = [status |-> 0, events |-> <<>>, ended |-> FALSE]
    /\ env = None
    /\ analyses = <<>>
    /\ runs = <<>>

\* the value the call made returned
Returned == returned[called]

\* one call of a scoring function on the inputs drawn by ScoreInit
Call(name, value) ==
    /\ called = "none"
    /\ called' = name
    /\ returned' = [f \in {name} |-> value]
    /\ UNCHANGED <<target, competitors, pc, apiKey, searchQueries, allBusinesses, seenPlaceIds,
                   responses, baseResult, aiOutcome, seoOutcome, result, thrown, http, env, runs,
                   analyses>>

CallMarketPosition ==
    Call("calculateMarketPosition", calculateMarketPosition(target, competitors))

CallCompetitiveScore ==
    Call("calculateCompetitiveScore", calculateCompetitiveScore(target, competitors))

CallPerformanceScore ==
    Call("calculatePerformanceScore", calculatePerformanceScore(target, competitors))

CallPerformanceScoreSimple ==
    Call("calculatePerformanceScoreSimple", calculatePerformanceScoreSimple(target))

CallIdentifyStrengths ==
    Call("identifyStrengths", identifyStrengths(target, competitors))

CallIdentifyOpportunities ==
    Call("identifyOpportunities", identifyOpportunities(target, competitors))

CallAnalyzeMarket ==
    Call("analyzeMarket", analyzeMarket(target, competitors))

ScoreNext ==
    \/ CallMarketPosition
    \/ CallCompetitiveScore
    \/ CallPerformanceScore
    \/ CallPerformanceScoreSimple
    \/ CallIdentifyStrengths
    \/ CallIdentifyOpportunities
    \/ CallAnalyzeMarket

vars == <<target, competitors, called, returned, pc, apiKey, searchQueries, allBusinesses,
          seenPlaceIds, responses, baseResult, aiOutcome, seoOutcome, result, thrown, http, env,
          analyses, runs>>

ScoreSpec == ScoreInit /\ [][ScoreNext]_vars

-----------------------------------------------------------------------------
(* BusinessDirectory: GooglePlacesService *)

\* A string that is searched or searched for is the list of its words, in lower case.

\* String.prototype.includes, word by word
Includes(hay, needle) ==
    \E i \in 0..(Len(hay) - Len(needle)) : SubSeq(hay, i + 1, i + Len(needle)) = needle

MockBusiness(id, name, type, r, n, web, photos) ==
    [placeId |-> id, name |-> name, serviceType |-> type, rating |-> Tenths(r), reviewCount |-> n,
     publicInfo |-> [website |-> web, phone |-> TRUE, photos |-> photos]]

\* mock_place_1 .. mock_place_5, as places 101 .. 105
mockBusinesses ==
    << MockBusiness(101, <<"elite", "hvac", "services">>, <<"hvac">>, 48, 127, TRUE, 15),
       MockBusiness(102, <<"phoenix", "plumbing", "pro">>, <<"plumbing">>, 46, 89, FALSE, 8),
       MockBusiness(103, <<"desert", "roofing", "solutions">>, <<"roofing">>, 49, 203, TRUE, 25),
       MockBusiness(104, <<"lightning", "electric">>, <<"electrical">>, 44, 56, TRUE, 12),
       MockBusiness(105, <<"green", "valley", "landscaping">>, <<"landscaping">>, 47, 98, FALSE, 18) >>

getMockBusinesses(query) ==
    LET Matches(b) == Includes(b.name, query) \/ Includes(b.serviceType, query)
    IN  Slice(SelectSeq(mockBusinesses, Matches), 5)

\* what the places API knows of place id: result.rating || 0, result.user_ratings_total || 0
PlaceRating(id) == <<0, 45, 40, 50, 35>>[(id % 5) + 1]
PlaceReviews(id) == <<99, 9, 0>>[(id % 3) + 1]

\* raw results start..stop of the places API, as returned to query q: origin stands
\* for the data this response carries for the place
RawResults(q, ids) == [p \in 1..Len(ids) |-> [place_id |-> ids[p], origin |-> <<q, p>>]]

Range(a, b) == [i \in 1..(b - a + 1) |-> a + i - 1]

\* the result lists the places API may answer query q with (status OK or ZERO_RESULTS)
ApiResults(q) ==
    { RawResults(q, <<>>),
      RawResults(q, Range(1, 12)),
      RawResults(q, Range(6, 15)),
      RawResults(q, Range(11, NumIds)),
      RawResults(q, <<5, 10, 5>>) }

processSearchResults(results) ==
    [p \in 1..Len(results) |->
        [placeId |-> results[p].place_id,
         rating |-> Tenths(PlaceRating(results[p].place_id)),
         reviewCount |-> PlaceReviews(results[p].place_id),
         serviceType |-> <<"hvac">>,
         publicInfo |-> [website |-> TRUE, phone |-> TRUE, photos |-> 10],
         origin |-> results[p].origin]]

-----------------------------------------------------------------------------
(* CompetitorDiscoverer: findCompetitors *)

EnoughBusinesses == 15
MaxCompetitorSet == 10
MaxApiResults == 10

extractLocationFromAddress(address) ==
    LET parts == address
        matching == {i \in 1..Len(parts) : parts[i].state # ""}
        first == CHOOSE i \in matching : \A j \in matching : i <= j
        state == IF matching = {} THEN "" ELSE parts[first].state
        zipCode == IF matching = {} THEN "" ELSE parts[first].zip
        city == IF Len(parts) >= 4 THEN parts[Len(parts) - 2].text
                ELSE IF Len(parts) >= 3 THEN parts[Len(parts) - 1].text
                ELSE IF Len(parts) = 2 THEN parts[1].text
                ELSE ""
        locationQuery == IF zipCode # "" /\ city = "" THEN <<zipCode>>
                         ELSE IF state # "" THEN <<city, state>>
                         ELSE IF city # "" THEN <<city>>
                         ELSE <<>>
    IN  IF locationQuery # <<>> THEN locationQuery ELSE [i \in 1..Len(parts) |-> parts[i].text]

\* `${x}` of an optional string
Template(x) == IF x = None THEN "undefined" ELSE x[1]

buildSearchQueries(t) ==
    LET locationQuery == extractLocationFromAddress(t.address[1])
        serviceType == Template(t.serviceType)
    IN  << <<serviceType, "near">> \o locationQuery,
           <<serviceType, "services">> \o locationQuery,
           <<serviceType, "contractors">> \o locationQuery,
           <<serviceType, "companies", "in">> \o locationQuery >>

\* faulty variant: a record seen again replaces the one held
RECURSIVE mergeResults_LastWins(_, _, _)
mergeResults_LastWins(acc, seen, results) ==
    IF results = <<>> THEN [allBusinesses |-> acc, seenPlaceIds |-> seen]
    ELSE LET business == Head(results)
         IN  IF business.placeId \notin seen
             THEN mergeResults_LastWins(Append(acc, business), seen \cup {business.placeId},
                                        Tail(results))
             ELSE mergeResults_LastWins(
                    [i \in 1..Len(acc) |->
                        IF acc[i].placeId = business.placeId THEN business ELSE acc[i]],
                    seen, Tail(results))

\* the de-duplication loop over one query's results
RECURSIVE mergeResults(_, _, _)
mergeResults(acc, seen, results) ==
    IF results = <<>> THEN [allBusinesses |-> acc, seenPlaceIds |-> seen]
    ELSE LET business == Head(results)
         IN  IF business.placeId \notin seen
             THEN mergeResults(Append(acc, business), seen \cup {business.placeId}, Tail(results))
             ELSE mergeResults(acc, seen, Tail(results))

\* faulty variant: the list is not cut to 10
filterCompetitors_NoLimit(all, t) ==
    LET NotTarget(b) == b.placeId # t.placeId
    IN  SelectSeq(all, NotTarget)

\* faulty variant: the target is not filtered out
filterCompetitors_KeepTarget(all, t) == Slice(all, MaxCompetitorSet)

\* the target filtered out, the first 10 kept
filterCompetitors(all, t) ==
    LET NotTarget(b) == b.placeId # t.placeId
    IN  Slice(SelectSeq(all, NotTarget), MaxCompetitorSet)

-----------------------------------------------------------------------------
(* Spec: POST /api/analysis/start and AnalysisOrchestrator.analyzeCompetition *)

ValidTarget == Business(1, 45, 99, TRUE, TRUE, 10)

\* the request bodies: a well-formed business, one with a bare profile, and
\* bodies without address, without serviceType, with an empty address, without
\* publicInfo
SpecTargets ==
    { ValidTarget,
      Business(1, 35, 9, FALSE, FALSE, 0),
      [ValidTarget EXCEPT !.address = None],
      [ValidTarget EXCEPT !.serviceType = None],
      [ValidTarget EXCEPT !.address = Some(EmptyAddress)],
      [ValidTarget EXCEPT !.publicInfo = None] }

Init ==
    /\ target \in SpecTargets
    /\ apiKey \in {"mock_key", "key"}
    /\ competitors = <<>>
    /\ called = "none"
    /\ returned = NothingReturned
    /\ pc = "request"
    /\ searchQueries = <<>>
    /\ allBusinesses = <<>>
    /\ seenPlaceIds = {}
    /\ responses = <<>>
    /\ baseResult = None
    /\ aiOutcome = "none"
    /\ seoOutcome = "none"
    /\ result = None
    /\ thrown = None
    /\ http = [status |-> 0, events |-> <<>>, ended |-> FALSE]
    /\ env = None
    /\ analyses = <<>>
    /\ runs = <<>>

Progress(n) == [progress |-> n, completed |-> FALSE, error |-> ""]
InvalidBusinessData == [status |-> 400, events |-> <<>>, ended |-> TRUE]

discoveryVars == <<searchQueries, allBusinesses, seenPlaceIds, responses, competitors>>
analysisVars == <<baseResult, aiOutcome, seoOutcome, result, thrown, env>>
unitVars == <<called, returned, runs>>

\* insertBusinessSchema.parse: place_id, business_name and service_type are notNull
ValidateRequest ==
    /\ pc = "request"
    /\ IF target.serviceType # None
       THEN pc' = "createBusiness" /\ UNCHANGED http
       ELSE pc' = "done" /\ http' = InvalidBusinessData
    /\ UNCHANGED <<target, apiKey, discoveryVars, analysisVars, unitVars, analyses>>

\* storage.createBusiness, then the event stream is opened
CreateBusiness ==
    /\ pc = "createBusiness"
    /\ pc' = "analyze"
    /\ http' = [status |-> 200, events |-> <<Progress(15), Progress(30), Progress(45)>>,
                ended |-> FALSE]
    /\ UNCHANGED <<target, apiKey, discoveryVars, analysisVars, unitVars, analyses>>

\* storage.createBusiness rejects: the outer catch answers 400
CreateBusinessFails ==
    /\ pc = "createBusiness"
    /\ pc' = "done"
    /\ http' = InvalidBusinessData
    /\ UNCHANGED <<target, apiKey, discoveryVars, analysisVars, unitVars, analyses>>

\* analyzeCompetition up to the first search: address.split throws on a missing address
BeginAnalysis ==
    /\ pc = "analyze"
    /\ IF target.address = None
       THEN /\ thrown' = Some("Failed to analyze competition")
            /\ pc' = "thrown"
            /\ UNCHANGED searchQueries
       ELSE /\ searchQueries' = buildSearchQueries(target)
            /\ pc' = "search"
            /\ UNCHANGED thrown
    /\ UNCHANGED <<target, apiKey, allBusinesses, seenPlaceIds, responses, competitors,
                   baseResult, aiOutcome, seoOutcome, result, env, unitVars, http,
                   analyses>>

\* faulty variant: the loop is left only with more than 15 businesses
enoughBusinesses_MoreThan(all) == Len(all) > EnoughBusinesses

\* if (allBusinesses.length >= 15) break
enoughBusinesses(all) == Len(all) >= EnoughBusinesses

\* one turn of the query loop, searchBusinesses having returned results
Merge(outcome, results) ==
    LET merged == mergeResults(allBusinesses, seenPlaceIds, results)
    IN  /\ allBusinesses' = merged.allBusinesses
        /\ seenPlaceIds' = merged.seenPlaceIds
        /\ responses' = Append(responses, [query |-> searchQueries[Len(responses) + 1],
                                            outcome |-> outcome, results |-> results])
        /\ pc' = IF enoughBusinesses(merged.allBusinesses)
                    \/ Len(responses) + 1 = Len(searchQueries)
                 THEN "filter" ELSE "search"
        /\ UNCHANGED <<target, apiKey, searchQueries, competitors, analysisVars, unitVars, http, analyses>>

NextQuery == Len(responses) + 1

\* searchBusinesses without an API key
SearchMock ==
    /\ pc = "search"
    /\ apiKey = "mock_key"
    /\ Merge("mock", getMockBusinesses(searchQueries[NextQuery]))

\* searchBusinesses, the places API answering OK or ZERO_RESULTS
SearchApi ==
    /\ pc = "search"
    /\ apiKey # "mock_key"
    /\ \E results \in ApiResults(NextQuery) :
          Merge("ok", processSearchResults(Slice(results, MaxApiResults)))

\* faulty variant: the failure of the search leaves searchBusinesses and findCompetitors
SearchApiFails_Throws ==
    /\ pc = "search"
    /\ apiKey # "mock_key"
    /\ responses' = Append(responses, [query |-> searchQueries[Len(responses) + 1],
                                        outcome |-> "error", results |-> <<>>])
    /\ thrown' = Some("Failed to analyze competition")
    /\ pc' = "thrown"
    /\ UNCHANGED <<target, apiKey, searchQueries, allBusinesses, seenPlaceIds, competitors,
                   baseResult, aiOutcome, seoOutcome, result, env, unitVars, http,
                   analyses>>

\* searchBusinesses, the request failing or the API answering an error status
SearchApiFails ==
    /\ pc = "search"
    /\ apiKey # "mock_key"
    /\ Merge("error", getMockBusinesses(searchQueries[NextQuery]))

\* findCompetitors returns
ReturnCompetitors ==
    /\ pc = "filter"
    /\ competitors' = filterCompetitors(allBusinesses, target)
    /\ pc' = "score"
    /\ UNCHANGED <<target, apiKey, searchQueries, allBusinesses, seenPlaceIds, responses,
                   analysisVars, unitVars, http, analyses>>

\* faulty variant: the ranking sorts the competitors array itself
scoredCompetitors_SortedInPlace(cs) == SortByStrength(cs)

\* the competitors array once the scoring functions have run: the two rankings
\* sort copies of it ([target, ...competitors] and [...competitors])
scoredCompetitors(cs) == cs

\* the scores and lists analyzeCompetition computes from the CompetitorSet
coreResult(t, cs) ==
    [marketPosition |-> calculateMarketPosition(t, cs),
     competitiveScore |-> calculateCompetitiveScore(t, cs),
     performanceScore |-> calculatePerformanceScore(t, cs),
     strengths |-> identifyStrengths(t, cs),
     opportunities |-> identifyOpportunities(t, cs),
     competitors |-> scoredCompetitors(cs),
     marketAnalysis |-> analyzeMarket(t, cs)]

\* target.publicInfo is an object
HasPublicInfo(t) == DOMAIN t.publicInfo # {}

\* faulty variant: the TypeError of the scoring leaves analyzeCompetition as it is
ComputeCore_Rethrows ==
    /\ pc = "score"
    /\ IF HasPublicInfo(target)
       THEN /\ baseResult' = Some(coreResult(target, competitors))
            /\ pc' = "ai"
            /\ UNCHANGED thrown
       ELSE /\ thrown' = Some("Cannot read properties of undefined (reading 'website')")
            /\ pc' = "thrown"
            /\ UNCHANGED baseResult
    /\ UNCHANGED <<target, apiKey, discoveryVars, aiOutcome, seoOutcome, result,
                   env, unitVars, http, analyses>>

\* the core result; target.publicInfo.website throws on a missing publicInfo
ComputeCore ==
    /\ pc = "score"
    /\ IF HasPublicInfo(target)
       THEN /\ baseResult' = Some(coreResult(target, competitors))
            /\ pc' = "ai"
            /\ UNCHANGED thrown
       ELSE /\ thrown' = Some("Failed to analyze competition")
            /\ pc' = "thrown"
            /\ UNCHANGED baseResult
    /\ UNCHANGED <<target, apiKey, discoveryVars, aiOutcome, seoOutcome, result,
                   env, unitVars, http, analyses>>

\* generateCompetitorInsights: "disabled" and "failed" return the mock insights
AiInsights(outcome) ==
    /\ pc = "ai"
    /\ aiOutcome' = outcome
    /\ pc' = "seo"
    /\ UNCHANGED <<target, apiKey, discoveryVars, baseResult, seoOutcome, result, thrown,
                   env, unitVars, http, analyses>>

AiDisabled == AiInsights("disabled")
AiSucceeds == AiInsights("generated")
AiFails == AiInsights("failed")

\* faulty variant: a failed completion leaves no insights
generateCompetitorInsights_NullOnFailure(outcome) ==
    IF outcome = "generated" THEN Some("insights")
    ELSE IF outcome = "failed" THEN None
    ELSE Some("mock insights")

\* what generateCompetitorInsights returns: the validated completion, or
\* getMockInsights() when the service is disabled or the completion failed
generateCompetitorInsights(outcome) ==
    IF outcome = "generated" THEN Some("insights") ELSE Some("mock insights")

\* faulty variant: the SEO data, when there is any, replaces the competitive score
Enriched_SeoScore(ai, seo) ==
    [marketPosition |-> baseResult[1].marketPosition,
     competitiveScore |-> IF seo = "data" THEN Num(0) ELSE baseResult[1].competitiveScore,
     performanceScore |-> baseResult[1].performanceScore,
     strengths |-> baseResult[1].strengths,
     opportunities |-> baseResult[1].opportunities,
     competitors |-> baseResult[1].competitors,
     marketAnalysis |-> baseResult[1].marketAnalysis,
     aiInsights |-> generateCompetitorInsights(ai),
     enhancedSeoData |-> IF seo = "data" THEN Some("seo data") ELSE None]

\* the result analyzeCompetition returns
Enriched(ai, seo) ==
    [marketPosition |-> baseResult[1].marketPosition,
     competitiveScore |-> baseResult[1].competitiveScore,
     performanceScore |-> baseResult[1].performanceScore,
     strengths |-> baseResult[1].strengths,
     opportunities |-> baseResult[1].opportunities,
     competitors |-> baseResult[1].competitors,
     marketAnalysis |-> baseResult[1].marketAnalysis,
     aiInsights |-> generateCompetitorInsights(ai),
     enhancedSeoData |-> IF seo = "data" THEN Some("seo data") ELSE None]

\* the values an environment variable may have: unset, or set to a string
EnvValues == {None, Some("set")}

\* faulty variant: one of the two credentials is enough
credentialsConfigured_Either(e) ==
    e.DATAFORSEO_LOGIN # None \/ e.DATAFORSEO_PASSWORD # None

\* process.env.DATAFORSEO_LOGIN && process.env.DATAFORSEO_PASSWORD
credentialsConfigured(e) ==
    e.DATAFORSEO_LOGIN # None /\ e.DATAFORSEO_PASSWORD # None

\* faulty variant: the SEO analysis is started without awaiting the insights
SeoStep_NotAwaitingInsights(outcome) ==
    /\ pc \in {"ai", "seo"}
    /\ \E login, password \in EnvValues :
          LET e == [DATAFORSEO_LOGIN |-> login, DATAFORSEO_PASSWORD |-> password]
          IN  /\ credentialsConfigured(e) <=> outcome # "skipped"
              /\ env' = Some(e)
    /\ seoOutcome' = outcome
    /\ result' = Some(Enriched(aiOutcome, outcome))
    /\ pc' = "returned"
    /\ UNCHANGED <<target, apiKey, discoveryVars, baseResult, aiOutcome, thrown, unitVars, http, analyses>>

\* the enhanced SEO analysis, called ("data", "failed") or not ("skipped")
\* according to the credentials, then the return
SeoStep(outcome) ==
    /\ pc = "seo"
    /\ \E login, password \in EnvValues :
          LET e == [DATAFORSEO_LOGIN |-> login, DATAFORSEO_PASSWORD |-> password]
          IN  /\ credentialsConfigured(e) <=> outcome # "skipped"
              /\ env' = Some(e)
    /\ seoOutcome' = outcome
    /\ result' = Some(Enriched(aiOutcome, outcome))
    /\ pc' = "returned"
    /\ UNCHANGED <<target, apiKey, discoveryVars, baseResult, aiOutcome, thrown, unitVars, http, analyses>>

\* faulty variant: the failure of the SEO analysis reaches the outer catch
SeoFails_Throws ==
    /\ pc = "seo"
    /\ env' = Some([DATAFORSEO_LOGIN |-> Some("set"), DATAFORSEO_PASSWORD |-> Some("set")])
    /\ seoOutcome' = "failed"
    /\ thrown' = Some("Failed to analyze competition")
    /\ pc' = "thrown"
    /\ UNCHANGED <<target, apiKey, discoveryVars, baseResult, aiOutcome, result, unitVars, http, analyses>>

SeoSkipped == SeoStep("skipped")
SeoSucceeds == SeoStep("data")
SeoFails == SeoStep("failed")

ErrorEvent == [progress |-> 0, completed |-> FALSE, error |-> "Failed to complete analysis"]
CompletedEvent == [progress |-> 100, completed |-> TRUE, error |-> ""]

\* insertAnalysisSchema.parse: the integer columns take integers only
ValidAnalysis(r) ==
    /\ IsInteger(r.competitiveScore)
    /\ IsInteger(r.performanceScore)

\* insertAnalysisSchema.parse of the result
analysisData(r) ==
    [marketPosition |-> r.marketPosition,
     competitiveScore |-> r.competitiveScore,
     performanceScore |-> r.performanceScore,
     strengths |-> r.strengths,
     opportunities |-> r.opportunities,
     competitorData |-> r.competitors,
     marketShare |-> r.marketAnalysis.marketShare,
     averageCompetitorRating |-> r.marketAnalysis.averageRating,
     totalCompetitors |-> r.marketAnalysis.totalCompetitors]

\* the analysis is saved and the stream completed
SaveAnalysis ==
    /\ pc = "returned"
    /\ ValidAnalysis(result[1])
    /\ analyses' = Append(analyses, analysisData(result[1]))
    /\ http' = [http EXCEPT !.events = @ \o <<Progress(60), Progress(75), Progress(90),
                                               Progress(100), CompletedEvent>>,
                            !.ended = TRUE]
    /\ pc' = "done"
    /\ UNCHANGED <<target, apiKey, discoveryVars, analysisVars, unitVars>>

\* faulty variant: the failure is reported after the completed event was written
SaveAnalysisFails_AfterCompleted ==
    /\ pc = "returned"
    /\ http' = [http EXCEPT !.events = @ \o <<Progress(60), Progress(75), Progress(90),
                                               Progress(100), CompletedEvent, ErrorEvent>>,
                            !.ended = TRUE]
    /\ pc' = "done"
    /\ UNCHANGED <<target, apiKey, discoveryVars, analysisVars, unitVars, analyses>>

\* insertAnalysisSchema.parse or storage.createAnalysis throws
SaveAnalysisFails ==
    /\ pc = "returned"
    /\ http' = [http EXCEPT !.events = @ \o <<Progress(60), Progress(75), Progress(90), ErrorEvent>>,
                            !.ended = TRUE]
    /\ pc' = "done"
    /\ UNCHANGED <<target, apiKey, discoveryVars, analysisVars, unitVars, analyses>>

\* analyzeCompetition threw
AnalysisFailed ==
    /\ pc = "thrown"
    /\ http' = [http EXCEPT !.events = @ \o <<ErrorEvent>>, !.ended = TRUE]
    /\ pc' = "done"
    /\ UNCHANGED <<target, apiKey, discoveryVars, analysisVars, unitVars, analyses>>

Next ==
    \/ ValidateRequest
    \/ CreateBusiness
    \/ CreateBusinessFails
    \/ BeginAnalysis
    \/ SearchMock
    \/ SearchApi
    \/ SearchApiFails
    \/ ReturnCompetitors
    \/ ComputeCore
    \/ AiDisabled
    \/ AiSucceeds
    \/ AiFails
    \/ SeoSkipped
    \/ SeoSucceeds
    \/ SeoFails
    \/ SaveAnalysis
    \/ SaveAnalysisFails
    \/ AnalysisFailed

Spec == Init /\ [][Next]_vars

-----------------------------------------------------------------------------
(* ConcurrentSpec: two analyzeCompetition calls on the one service instance *)
(* registerRoutes creates, interleaving at their await points              *)

Runs == {1, 2}

\* the targets of the two calls: both are among the places the searches return
RunTarget(r) == IF r = 1 THEN ValidTarget ELSE Business(6, 35, 9, FALSE, FALSE, 0)

\* the locals of a call that has just been made
NewRun(t) ==
    [target |-> t, pc |-> "begin", searchQueries |-> <<>>, allBusinesses |-> <<>>,
     seenPlaceIds |-> {}, responses |-> <<>>, competitors |-> <<>>, core |-> None]

ConcurrentInit ==
    /\ runs = [r \in Runs |-> NewRun(RunTarget(r))]
    /\ apiKey \in {"mock_key", "key"}
    /\ pc = "concurrent"
    /\ target = None
    /\ competitors = <<>>
    /\ called = "none"
    /\ returned = NothingReturned
    /\ searchQueries = <<>>
    /\ allBusinesses = <<>>
    /\ seenPlaceIds = {}
    /\ responses = <<>>
    /\ baseResult = None
    /\ aiOutcome = "none"
    /\ seoOutcome = "none"
    /\ result = None
    /\ thrown = None
    /\ http = [status |-> 0, events |-> <<>>, ended |-> FALSE]
    /\ env = None
    /\ analyses = <<>>

\* the result list the places API answers query variant q with, when it answers:
\* the odd and the even variants find overlapping sets of places
RunApiResults(q) ==
    { RawResults(q, IF q % 2 = 1 THEN Range(1, 12) ELSE Range(6, 15)) }

\* faulty variant: one set of seen ids held by the service instance
seenBy_Shared(r) == UNION {runs[q].seenPlaceIds : q \in Runs}

\* const seenPlaceIds = new Set<string>(): a local of the call
seenBy(r) == runs[r].seenPlaceIds

\* the step of call r alone
RunStep(r, run) ==
    /\ runs' = [runs EXCEPT ![r] = run]
    /\ UNCHANGED <<target, competitors, called, returned, pc, apiKey, searchQueries, allBusinesses,
                   seenPlaceIds, responses, baseResult, aiOutcome, seoOutcome, result, thrown, http,
                   env, analyses>>

\* findCompetitors up to its first await
RunBegin(r) ==
    /\ runs[r].pc = "begin"
    /\ RunStep(r, [runs[r] EXCEPT !.searchQueries = buildSearchQueries(runs[r].target),
                                  !.pc = "search"])

\* one turn of the query loop of call r
RunMerge(r, outcome, results) ==
    LET run == runs[r]
        merged == mergeResults(run.allBusinesses, seenBy(r), results)
        issued == Len(run.responses) + 1
    IN  RunStep(r, [run EXCEPT
                      !.allBusinesses = merged.allBusinesses,
                      !.seenPlaceIds = merged.seenPlaceIds,
                      !.responses = Append(@, [query |-> run.searchQueries[issued],
                                               outcome |-> outcome, results |-> results]),
                      !.pc = IF enoughBusinesses(merged.allBusinesses)
                                \/ issued = Len(run.searchQueries)
                             THEN "filter" ELSE "search"])

RunSearchMock(r) ==
    /\ runs[r].pc = "search"
    /\ apiKey = "mock_key"
    /\ RunMerge(r, "mock", getMockBusinesses(runs[r].searchQueries[Len(runs[r].responses) + 1]))

RunSearchApi(r) ==
    /\ runs[r].pc = "search"
    /\ apiKey # "mock_key"
    /\ \E results \in RunApiResults(Len(runs[r].responses) + 1) :
          RunMerge(r, "ok", processSearchResults(Slice(results, MaxApiResults)))

RunSearchApiFails(r) ==
    /\ runs[r].pc = "search"
    /\ apiKey # "mock_key"
    /\ RunMerge(r, "error", getMockBusinesses(runs[r].searchQueries[Len(runs[r].responses) + 1]))

\* findCompetitors of call r returns
RunReturnCompetitors(r) ==
    /\ runs[r].pc = "filter"
    /\ RunStep(r, [runs[r] EXCEPT
                      !.competitors = filterCompetitors(runs[r].allBusinesses, runs[r].target),
                      !.pc = "score"])

\* call r computes its core result
RunComputeCore(r) ==
    /\ runs[r].pc = "score"
    /\ RunStep(r, [runs[r] EXCEPT
                      !.core = Some(coreResult(runs[r].target, runs[r].competitors)),
                      !.pc = "done"])

ConcurrentNext ==
    \E r \in Runs :
        \/ RunBegin(r)
        \/ RunSearchMock(r)
        \/ RunSearchApi(r)
        \/ RunSearchApiFails(r)
        \/ RunReturnCompetitors(r)
        \/ RunComputeCore(r)

ConcurrentSpec == ConcurrentInit /\ [][ConcurrentNext]_vars

-----------------------------------------------------------------------------
(* Properties of the scoring functions, checked under ScoreSpec *)

\* C1: performanceScore(target, competitors) is always an integer in [0, 64], with
\* or without competitors, also when the strongest competitor has strength 0.
C1_PerformanceScoreInRange ==
    called = "calculatePerformanceScore" => IsInteger(Returned) /\ Returned.n \in 0..64

\* C2: when no competitor carries the target's id, marketPosition is an integer in
\* [1, len(competitors) + 1].
C2_MarketPositionInRange ==
    (called = "calculateMarketPosition"
        /\ \A i \in 1..Len(competitors) : competitors[i].placeId # target.placeId)
    => Returned \in 1..(Len(competitors) + 1)

\* the target ranked last behind two competitors
C2_Witness ==
    called = "calculateMarketPosition" /\ Len(competitors) = 2 /\ Returned = 3

\* C10: the marketShare of analyzeMarket is a number in [0, 100].
C10_MarketShareInRange ==
    called = "analyzeMarket"
    => /\ IsFinite(Returned.marketShare)
       /\ GreaterEq(Returned.marketShare, Num(0))
       /\ GreaterEq(Num(100), Returned.marketShare)

\* a share strictly between 0 and 100, the competitors holding reviews too
C10_Witness ==
    /\ called = "analyzeMarket"
    /\ Len(competitors) > 0
    /\ Less(Num(0), Returned.marketShare)
    /\ Less(Returned.marketShare, Num(100))

-----------------------------------------------------------------------------
(* Properties of discovery and orchestration, checked under Spec *)

\* every record the searches returned, in the order of arrival
RECURSIVE AllResults(_)
AllResults(rs) == IF rs = <<>> THEN <<>> ELSE AllResults(SubSeq(rs, 1, Len(rs) - 1)) \o rs[Len(rs)].results

\* the first record with this id among them
FirstSeen(id) ==
    LET all == AllResults(responses)
        k == CHOOSE i \in 1..Len(all) :
                all[i].placeId = id /\ \A j \in 1..(i - 1) : all[j].placeId # id
    IN  all[k]

DiscoveryDone == pc \in {"score", "ai", "seo", "returned"} \/ (pc = "done" /\ responses # <<>>)

\* C3: the CompetitorSet has at most 10 records, however many unique records the
\* query variants return.
C3_AtMostTenCompetitors ==
    /\ Len(competitors) <= 10
    /\ result # None => Len(result[1].competitors) <= 10

\* more than 10 unique non-target records were found and 10 are returned
C3_Witness ==
    /\ result # None
    /\ Cardinality(seenPlaceIds \ {target.placeId}) > 10
    /\ Len(result[1].competitors) = 10

\* C4: an id returned more than once, by two variants or twice by one, is held
\* exactly once, with the record of its first appearance in variant-list order.
C4_FirstSeenWins ==
    /\ \A id \in {AllResults(responses)[k].placeId : k \in 1..Len(AllResults(responses))} :
          Cardinality({i \in 1..Len(allBusinesses) : allBusinesses[i].placeId = id}) = 1
    /\ \A i \in 1..Len(allBusinesses) : allBusinesses[i] = FirstSeen(allBusinesses[i].placeId)
    /\ \A i \in 1..Len(competitors) :
          /\ competitors[i] = FirstSeen(competitors[i].placeId)
          /\ \A j \in 1..Len(competitors) : competitors[j].placeId = competitors[i].placeId => j = i

\* a competitor that two different variants returned, and one returned twice by one variant
C4_Witness ==
    /\ result # None
    /\ \E i \in 1..Len(competitors) : \E q1, q2 \in 1..Len(responses) :
          /\ q1 < q2
          /\ \E p \in 1..Len(responses[q1].results) :
                responses[q1].results[p].placeId = competitors[i].placeId
          /\ \E p \in 1..Len(responses[q2].results) :
                responses[q2].results[p].placeId = competitors[i].placeId
    /\ \E i \in 1..Len(competitors) : \E q \in 1..Len(responses) :
          \E p1, p2 \in 1..Len(responses[q].results) :
             /\ p1 < p2
             /\ responses[q].results[p1].placeId = competitors[i].placeId
             /\ responses[q].results[p2].placeId = competitors[i].placeId

\* C5: no record of the CompetitorSet has the target's id, also when the target
\* is among the raw search results.
C5_TargetExcluded ==
    /\ \A i \in 1..Len(competitors) : competitors[i].placeId # target.placeId
    /\ result # None =>
          \A i \in 1..Len(result[1].competitors) :
             result[1].competitors[i].placeId # target.placeId

\* the target was returned by two variants, and competitors were found
C5_Witness ==
    /\ result # None
    /\ Len(competitors) > 0
    /\ \E q1, q2 \in 1..Len(responses) :
          /\ q1 < q2
          /\ \E p \in 1..Len(responses[q1].results) : responses[q1].results[p].placeId = target.placeId
          /\ \E p \in 1..Len(responses[q2].results) : responses[q2].results[p].placeId = target.placeId

CoreFields ==
    {"marketPosition", "competitiveScore", "performanceScore", "strengths", "opportunities",
     "marketAnalysis"}

\* C6: a failure of the narrative enricher, of the SEO enricher or of both never
\* makes analyzeCompetition fail: the result is returned with the core fields.
C6_EnrichmentFailureTolerated ==
    (aiOutcome = "failed" \/ seoOutcome = "failed")
    => /\ thrown = None
       /\ pc \in {"seo", "returned", "done"}
       /\ pc # "seo" =>
             /\ result # None
             /\ CoreFields \subseteq DOMAIN result[1]
             /\ \A f \in CoreFields : result[1][f] = baseResult[1][f]

\* both enrichers failed and the result was returned
C6_Witness ==
    aiOutcome = "failed" /\ seoOutcome = "failed" /\ result # None /\ Len(competitors) > 0

\* C7: a failed search contributes no record, the remaining variants are still
\* queried, and the failure does not leave findCompetitors: if analyzeCompetition
\* throws afterwards, findCompetitors had returned and the scoring threw.
C7_SearchFailureTolerated ==
    LET failed == {q \in 1..Len(responses) : responses[q].outcome = "error"}
    IN  /\ \A q \in failed : responses[q].results = <<>>
        /\ \A i \in 1..Len(allBusinesses) :
              \E q \in 1..Len(responses) \ failed : \E p \in 1..Len(responses[q].results) :
                 responses[q].results[p] = allBusinesses[i]
        /\ failed # {} =>
              /\ thrown # None => (~HasPublicInfo(target) /\ competitors = filterCompetitors(allBusinesses, target))
              /\ pc \in {"search", "filter", "score"} => thrown = None
              /\ DiscoveryDone =>
                    Len(responses) = Len(searchQueries) \/ Len(allBusinesses) >= EnoughBusinesses

\* the first search failed, a later one brought the competitors
C7_Witness ==
    /\ result # None
    /\ Len(responses) = 4
    /\ responses[1].outcome = "error"
    /\ responses[3].outcome = "error"
    /\ responses[4].outcome = "ok"
    /\ Len(competitors) > 0

\* C8: with an empty CompetitorSet the analysis still returns, every score coming
\* from its zero-competitor branch.
C8_EmptySetFallback ==
    (baseResult # None /\ competitors = <<>>)
    => /\ thrown = None
       /\ baseResult[1].marketPosition = 1
       /\ baseResult[1].performanceScore = MathMin(Num(64), Mul(target.rating, Num(20)))
       /\ IsInteger(baseResult[1].competitiveScore)
       /\ baseResult[1].competitiveScore.n \in 0..100
       /\ Len(baseResult[1].strengths) <= 3
       /\ Len(baseResult[1].opportunities) <= 3
       /\ baseResult[1].marketAnalysis =
             [totalCompetitors |-> 0, averageRating |-> Num(4),
              marketShare |-> IF target.reviewCount > 0 THEN Num(100) ELSE Num(0)]
       /\ pc \in {"returned", "done"} => result # None /\ result[1].competitors = <<>>

\* every variant was queried, none brought a record, and the result was returned
C8_Witness ==
    /\ result # None
    /\ competitors = <<>>
    /\ Len(responses) = 4
    /\ \E q \in 1..4 : responses[q].outcome = "error"
    /\ \E q \in 1..4 : responses[q].outcome = "ok"

\* C9: a target without serviceType or without address is rejected before any
\* search, with the input-validation answer (400), not the answer a runtime
\* failure of the analysis gets (the error event of the stream).
C9_MalformedTargetRejected ==
    (target.address = None \/ target.serviceType = None)
    => /\ responses = <<>>
       /\ http.ended => http.status = 400 /\ http.events = <<>>

C12_AtMostThreeMessages ==
    called \in {"identifyStrengths", "identifyOpportunities"} => Len(Returned) <= 3

\* four strengths apply to the target and three are returned
C12_Witness ==
    /\ called = "identifyStrengths"
    /\ Len(strengthCandidates(target, competitors)) = 4
    /\ Len(Returned) = 3

\* the target with another rating (in tenths), everything else unchanged
WithRating(t, r) == [t EXCEPT !.rating = Tenths(r)]

\* C13: competitiveScore is non-decreasing in target.rating, the competitor set and
\* the target's other fields held fixed: a lower rating never scores higher, a
\* higher rating never scores lower.
C13_CompetitiveScoreMonotoneInRating ==
    called = "calculateCompetitiveScore"
    => \A r \in RatingTenths :
          LET other == calculateCompetitiveScore(WithRating(target, r), competitors)
          IN  /\ GreaterEq(Tenths(r), target.rating) => GreaterEq(other, Returned)
              /\ GreaterEq(target.rating, Tenths(r)) => GreaterEq(Returned, other)

\* a competitor set for which a higher rating scores strictly higher
C13_Witness ==
    /\ called = "calculateCompetitiveScore"
    /\ Len(competitors) > 0
    /\ \E r \in RatingTenths :
          /\ Greater(Tenths(r), target.rating)
          /\ Greater(calculateCompetitiveScore(WithRating(target, r), competitors), Returned)

\* C14: competitiveScore is an integer in [0, 100], for every target and competitor
\* set, the empty set and a set whose mean reviewCount is 0 included.
C14_CompetitiveScoreInRange ==
    called = "calculateCompetitiveScore" => IsInteger(Returned) /\ Returned.n \in 0..100

\* competitors without any review, a target with reviews: the division by the
\* mean reviewCount 0 is taken
C14_Witness ==
    /\ called = "calculateCompetitiveScore"
    /\ Len(competitors) > 0
    /\ SumReviews(competitors) = 0
    /\ target.reviewCount > 0
    /\ IsInteger(Returned)

\* the distinct ids among the records the searches returned
IdsSeen == {AllResults(responses)[k].placeId : k \in 1..Len(AllResults(responses))}

\* C15: once the accumulator holds at least 15 unique records no further query is
\* issued; when discovery ends below 15, all 4 variants were issued; the queries
\* issued are the variants in list order, and the accumulator holds exactly the
\* distinct ids of the responses.
C15_EarlyStop ==
    /\ [][Len(allBusinesses) >= 15 => responses' = responses]_vars
    /\ [](/\ \A k \in 1..Len(responses) : responses[k].query = searchQueries[k]
          /\ Len(allBusinesses) = Cardinality(IdsSeen)
          /\ seenPlaceIds = IdsSeen
          /\ (DiscoveryDone /\ Len(allBusinesses) < 15) => Len(responses) = 4)

\* discovery left after the second variant, with 15 unique records
C15_Witness ==
    /\ DiscoveryDone
    /\ Len(responses) = 2
    /\ Len(allBusinesses) = 15

\* what a call that runs alone holds after these responses
RECURSIVE MergedAlone(_)
MergedAlone(rs) ==
    IF rs = <<>> THEN [allBusinesses |-> <<>>, seenPlaceIds |-> {}]
    ELSE LET before == MergedAlone(SubSeq(rs, 1, Len(rs) - 1))
         IN  mergeResults(before.allBusinesses, before.seenPlaceIds, rs[Len(rs)].results)

\* C16: two analyzeCompetition calls interleaving on one service instance share no
\* mutable state: the accumulator, the seen-id set, the CompetitorSet and the
\* scores of each call are those of the call running alone on the same responses.
C16_RunsIndependent ==
    \A r \in DOMAIN runs :
        LET run == runs[r]
            alone == MergedAlone(run.responses)
            set == filterCompetitors(alone.allBusinesses, run.target)
        IN  /\ run.allBusinesses = alone.allBusinesses
            /\ run.seenPlaceIds = alone.seenPlaceIds
            /\ run.pc \in {"score", "done"} => run.competitors = set
            /\ run.pc = "done" => run.core = Some(coreResult(run.target, set))

\* both calls are inside their query loops and hold records of the same places
C16_Witness ==
    /\ DOMAIN runs = Runs
    /\ \A r \in Runs : runs[r].pc = "search" /\ runs[r].responses # <<>>
    /\ runs[1].seenPlaceIds \cap runs[2].seenPlaceIds # {}

\* a rating as its number of tenths (4.5 is 45)
InTenths(x) == (x.n * 10) \div x.d

\* C17: without competitors performanceScore is min(64, round(rating / 5 * 100)),
\* which for a rating of r tenths is min(64, 2 * r); for rating 3.5 it is 64.
C17_FallbackPerformanceScore ==
    (called = "calculatePerformanceScore" /\ competitors = <<>>)
    => /\ Returned = Num(Min(64, 2 * InTenths(target.rating)))
       /\ target.rating = Tenths(35) => Returned = Num(64)

\* the call without competitors for a target rated 3.5
C17_Witness ==
    /\ called = "calculatePerformanceScore"
    /\ competitors = <<>>
    /\ target.rating = Tenths(35)
    /\ Returned = Num(64)

\* the target is at least as strong as every competitor
TargetLeads ==
    \A i \in 1..Len(competitors) : GreaterEq(Strength(target), Strength(competitors[i]))

\* C18: when the target's strength is at least that of every competitor,
\* marketPosition is 1 and performanceScore loses nothing to the gap from the leader.
C18_LeaderHasNoGap ==
    /\ (called = "calculateMarketPosition" /\ TargetLeads) => Returned = 1
    /\ (called = "calculatePerformanceScore" /\ competitors # <<>> /\ TargetLeads)
       => leaderGapDeduction(target, SortByStrength(competitors)[1]) = Num(0)

\* C20: with an empty competitor set identifyStrengths emits no percentile
\* strength, whatever the target's rating.
C20_NoPercentileWithoutCompetitors ==
    (called = "identifyStrengths" /\ competitors = <<>>)
    => \A k \in 1..Len(Returned) : Returned[k].text # "Higher rating than % of competitors"

\* the target with another reviewCount
WithReviewCount(t, n) == [t EXCEPT !.reviewCount = n]

\* C21: when the competitors' mean reviewCount is 0 the review-volume term of
\* competitiveScore is 0, and the score is the one of a target without reviews,
\* whatever the target's reviewCount.
C21_NoReviewTermWithoutReviews ==
    (called = "calculateCompetitiveScore" /\ AvgReviews(competitors) = Num(0))
    => /\ reviewVolumeTerm(target, competitors) = Num(0)
       /\ Returned = calculateCompetitiveScore(WithReviewCount(target, 0), competitors)

\* the competitors stronger than the target, and those of the target's strength
Stronger == {i \in 1..Len(competitors) : Greater(Strength(competitors[i]), Strength(target))}
Tied == {i \in 1..Len(competitors) : Strength(competitors[i]) = Strength(target)}

\* C22: marketPosition is 1 + the number of competitors of strictly greater
\* strength: the target ranks ahead of every competitor of its own strength.
C22_TiesRankBehindTarget ==
    called = "calculateMarketPosition" => Returned = 1 + Cardinality(Stronger)

\* a competitor of the target's non-zero strength and a stronger one: position 2
C22_Witness ==
    /\ called = "calculateMarketPosition"
    /\ Tied # {} /\ Stronger # {}
    /\ Greater(Strength(target), Num(0))
    /\ Returned = 2

\* the list holds the first 10 non-target places in the order in which the
\* places first appear among the records the searches returned
InAccumulationOrder(cs) ==
    LET all == AllResults(responses)
        ids == {all[k].placeId : k \in 1..Len(all)}
        FirstIndex == [id \in ids |-> CHOOSE i \in 1..Len(all) :
                          all[i].placeId = id /\ \A j \in 1..(i - 1) : all[j].placeId # id]
        others == ids \ {target.placeId}
        held == {cs[i].placeId : i \in 1..Len(cs)}
    IN  /\ Len(cs) = Min(10, Cardinality(others))
        /\ held \subseteq others
        /\ \A i, j \in 1..Len(cs) : i < j => FirstIndex[cs[i].placeId] < FirstIndex[cs[j].placeId]
        /\ \A id \in others \ held : \A i \in 1..Len(cs) : FirstIndex[cs[i].placeId] < FirstIndex[id]

\* C23: the CompetitorSet is the first 10 non-target records in accumulation
\* order, and the competitors of the core result and of the returned result are
\* that list in that order: the rankings of the scoring step do not reorder it.
C23_AccumulationOrderKept ==
    /\ (DiscoveryDone /\ result = None) => InAccumulationOrder(competitors)
    /\ baseResult # None => baseResult[1].competitors = competitors
    /\ result # None => /\ InAccumulationOrder(result[1].competitors)
                        /\ result[1].competitors = competitors

\* more than 10 places were found, the target among them, and the returned list
\* is not in strength order
C23_Witness ==
    /\ result # None
    /\ target.placeId \in IdsSeen
    /\ Cardinality(IdsSeen \ {target.placeId}) > 10
    /\ \E i, j \in 1..Len(result[1].competitors) :
          /\ i < j
          /\ Less(Strength(result[1].competitors[i]), Strength(result[1].competitors[j]))

\* C24: the core result built before the enrichment holds the values the scoring
\* functions give for the target and the CompetitorSet, no later step changes it,
\* and the six core fields of the returned result are its fields, whatever the
\* narrative and the SEO enricher did.
C24_EnrichmentAdditive ==
    /\ [](/\ pc = "ai" => (baseResult # None /\ baseResult[1] = coreResult(target, competitors))
          /\ result # None =>
                /\ aiOutcome \in {"disabled", "generated", "failed"}
                /\ seoOutcome \in {"skipped", "data", "failed"}
                /\ \A f \in CoreFields : result[1][f] = baseResult[1][f])
    /\ [][/\ baseResult # None => baseResult' = baseResult
          /\ result # None => result' = result]_vars

\* both enrichers delivered, for a target with competitors
C24_Witness ==
    /\ result # None
    /\ aiOutcome = "generated" /\ seoOutcome = "data"
    /\ Len(competitors) > 0
    /\ result[1].enhancedSeoData # None

C26_SeoOnlyWithCredentials ==
    env # None =>
        LET both == env[1].DATAFORSEO_LOGIN # None /\ env[1].DATAFORSEO_PASSWORD # None
        IN  /\ seoOutcome \in {"data", "failed"} => both
            /\ ~both => /\ seoOutcome = "skipped"
                         /\ result # None
                         /\ result[1].enhancedSeoData = None

\* the login is set, the password is not, and the analysis returned without SEO data
C26_Witness ==
    /\ env # None
    /\ env[1].DATAFORSEO_LOGIN # None /\ env[1].DATAFORSEO_PASSWORD = None
    /\ seoOutcome = "skipped"
    /\ result # None /\ result[1].enhancedSeoData = None
    /\ Len(competitors) > 0

\* the narrative enrichment is awaited, the SEO enrichment has not been started
InsightsPending == pc = "ai" /\ baseResult # None /\ aiOutcome = "none" /\ seoOutcome = "none"

\* C27 as claimed: the core scores are complete when the first enrichment call is
\* made, and the SEO call does not wait on the AI call: it can be made while the
\* AI call is pending.
C27_EnrichmentsDoNotWait ==
    /\ (pc = "ai" /\ aiOutcome = "none") => (baseResult # None /\ seoOutcome = "none")
    /\ InsightsPending => ENABLED (SeoSkipped \/ SeoSucceeds \/ SeoFails)

\* C27, amended: the core scores are complete when the first enrichment call is
\* made; the enrichment calls are awaited one after the other, the SEO call being
\* made only once the AI call has completed; every SEO outcome is possible
\* whatever the AI call returned.
C27_EnrichmentsInSequence ==
    /\ (pc = "ai" /\ aiOutcome = "none") => (baseResult # None /\ seoOutcome = "none")
    /\ aiOutcome # "none" => baseResult # None
    /\ seoOutcome # "none" => aiOutcome # "none"
    /\ InsightsPending => ~ENABLED (SeoSkipped \/ SeoSucceeds \/ SeoFails)
    /\ pc = "seo" => (ENABLED SeoSkipped /\ ENABLED SeoSucceeds /\ ENABLED SeoFails)

\* the insights were generated, then the SEO analysis was called and failed
C27_Witness ==
    /\ result # None
    /\ aiOutcome = "generated"
    /\ seoOutcome = "failed"
    /\ env # None /\ credentialsConfigured(env[1])

\* the largest reviewCount among the competitors
MaxReviews == CHOOSE m \in {competitors[i].reviewCount : i \in 1..Len(competitors)} :
                 \A i \in 1..Len(competitors) : competitors[i].reviewCount <= m

\* the five checks of identifyOpportunities in their order: the message, and
\* whether the check holds for the target and the competitors
OpportunityChecks ==
    << [text |-> "Increase review volume by reviews to match market leader",
        holds |-> Len(competitors) > 0 /\ 10 * target.reviewCount < 7 * MaxReviews],
       [text |-> "Add website to improve online presence",
        holds |-> ~target.publicInfo.website],
       [text |-> "Focus on collecting more customer reviews",
        holds |-> target.reviewCount < 50],
       [text |-> "Improve service quality to boost customer ratings",
        holds |-> Less(target.rating, AvgRating(competitors))],
       [text |-> "Add more photos to business listing",
        holds |-> target.publicInfo.photos < 10] >>

\* the checks that hold among the first k
HoldingUpTo(k) == {j \in 1..k : OpportunityChecks[j].holds}

\* C28: identifyOpportunities returns the messages of the first three checks
\* that hold, in the order of the checks; the message of a check that holds after
\* three earlier ones is not returned.
C28_FirstThreeOpportunities ==
    called = "identifyOpportunities" =>
        /\ Len(Returned) = Min(3, Cardinality(HoldingUpTo(5)))
        /\ \A j \in HoldingUpTo(5) :
              LET rank == Cardinality(HoldingUpTo(j))
              IN  IF rank <= 3
                  THEN Returned[rank].text = OpportunityChecks[j].text
                  ELSE \A k \in 1..Len(Returned) : Returned[k].text # OpportunityChecks[j].text

\* all five checks hold: the rating and the photo message are dropped
C28_Witness ==
    /\ called = "identifyOpportunities"
    /\ Cardinality(HoldingUpTo(5)) = 5
    /\ Len(Returned) = 3
    /\ Returned[3].text = "Focus on collecting more customer reviews"

\* analyzeCompetition was called and has ended
AnalysisEnded == pc \in {"returned", "thrown"} \/ (pc = "done" /\ http.status = 200)

\* C29: analyzeCompetition ends either with a result that has every core field
\* or with the one error 'Failed to analyze competition', never with both and
\* never with a partial result; an exception of the discovery (a missing address)
\* or of the scoring (a missing publicInfo) ends it with that error.
C29_AllOrNothing ==
    /\ ~(result # None /\ thrown # None)
    /\ thrown # None => thrown = Some("Failed to analyze competition")
    /\ result # None => CoreFields \cup {"competitors"} \subseteq DOMAIN result[1]
    /\ AnalysisEnded =>
          /\ result # None \/ thrown # None
          /\ target.address = None => (thrown # None /\ responses = <<>>)
          /\ ~HasPublicInfo(target) => (thrown # None /\ baseResult = None)
          /\ (target.address # None /\ HasPublicInfo(target)) => result # None
    /\ ~AnalysisEnded => (result = None /\ thrown = None)

\* the scoring threw after the discovery had found competitors
C29_Witness ==
    /\ AnalysisEnded
    /\ ~HasPublicInfo(target)
    /\ Len(competitors) > 0
    /\ thrown = Some("Failed to analyze competition")
    /\ result = None

\* the event stream was opened: validation and createBusiness succeeded
StreamOpened == http.status = 200

\* the positions of the terminal events of the stream
TerminalEvents ==
    {k \in 1..Len(http.events) : http.events[k].completed \/ http.events[k].error # ""}

\* C30: once the stream is open it holds at most one terminal event, the last
\* one, and is ended exactly when it holds one; the handler ends with the
\* response ended; 'completed' is written only with analyzeCompetition returned
\* and its result persisted; if analyzeCompetition threw or the result was not
\* persisted, the terminal event is the error event with progress 0.
C30_OneTerminalEvent ==
    StreamOpened =>
        /\ Cardinality(TerminalEvents) <= 1
        /\ TerminalEvents \subseteq {Len(http.events)}
        /\ http.ended <=> TerminalEvents # {}
        /\ pc = "done" <=> http.ended
        /\ \A k \in TerminalEvents :
              LET e == http.events[k]
              IN  /\ ~(e.completed /\ e.error # "")
                  /\ e.completed => /\ result # None
                                     /\ thrown = None
                                     /\ analyses = <<analysisData(result[1])>>
                  /\ (thrown # None \/ analyses = <<>>) => (e = ErrorEvent /\ e.progress = 0)
        /\ ~http.ended => analyses = <<>>

\* analyzeCompetition returned, the result was not persisted, and the stream
\* ended with the error event
C30_Witness ==
    /\ StreamOpened /\ http.ended
    /\ result # None
    /\ analyses = <<>>
    /\ http.events[Len(http.events)] = ErrorEvent
    /\ Cardinality(TerminalEvents) = 1

\* analyzeCompetition returned, the result was persisted, and the stream ended
\* with the completed event
C30_WitnessCompleted ==
    /\ StreamOpened /\ http.ended
    /\ analyses # <<>>
    /\ http.events[Len(http.events)] = CompletedEvent

=============================================================================
